---- MODULE Spec2Model ----
(***************************************************************************)
(* A model of server/python_services/youtube_service.py: the CacheManager  *)
(* (time-and-size bounded store), the hard filter and music score, the    *)
(* search (discovery) handler, and the audio streaming proxy.              *)
(*                                                                         *)
(* Python values are modelled as follows.  None is the empty sequence <<>> *)
(* and a present value v is <<v>>.  A dict is a sequence of entries in     *)
(* insertion order (Python dicts iterate in insertion order, and sorted()  *)
(* is stable, so the order decides which of two equally old entries the    *)
(* LRU eviction removes).  time.time() is the integer variable now.        *)
(***************************************************************************)
EXTENDS Integers, Sequences, FiniteSets, TLC

VARIABLES
    now,        \* time.time()
    max_size,   \* CacheManager.max_size of the cache under test
    cache,      \* CacheManager.cache of the cache under test
    last,       \* history: the last CacheManager call, its arguments and result
    written,    \* history: per key, the last set() of it not yet invalidated
    nops,       \* history: number of CacheManager calls made so far
    lock,       \* CacheManager.lock: the thread holding it, or NoThread
    pc,         \* per request-handler thread: where it is in its CacheManager call
    call,       \* per thread: the call it is making (method and arguments)
    todo,       \* per thread: the keys its running cleanup has still to delete
    ENFORCE_VERIFIED_ONLY,  \* the module-level verified-only switch
    search_cache,           \* search_cache.cache (responses by cache key)
    video_cache,            \* video_cache.cache (per-track data by id)
    catalog,    \* what the external sources answer during this behaviour
    resp,       \* history: the last search request, its response and what it did
    probe_info,   \* the info dict ytdl.extract_info gave for the video under test
    probe_flags,  \* the flags probe_with_ytdlp computed from it
    verdict,    \* what hard_keep returned for the flags
    score,      \* what music_score returned for the flags
    audio,      \* the audio request: its arguments, what audio_proxy did, its response
    upstream,   \* the upstream response of request_manager.get and its connection
    gen,        \* where the generator generate() of the streamed response is
    sent,       \* the chunks delivered to the client so far
    norm,       \* an input of extract_video_id and the results of applying it
    handlers    \* per thread: the search request it is serving, if any

cvars == <<now, max_size, cache, last, written, nops>>

tvars == <<lock, pc, call, todo>>

svars == <<ENFORCE_VERIFIED_ONLY, search_cache, video_cache, catalog, resp>>

fvars == <<probe_info, probe_flags, verdict, score>>

\* what the CacheManager and the search handler never touch
avars == <<audio, upstream, gen, sent>>

nvars == <<norm>>

hvars == <<handlers>>

xvars == <<fvars, avars, nvars, hvars>>

vars == <<cvars, tvars, svars, xvars>>

(***************************************************************************)
(* Bounds of the model and constants of the program.                       *)
(***************************************************************************)
MaxTime == 2        \* the clock runs from 0 to MaxTime
MaxOps == 2         \* number of CacheManager calls in one behaviour
default_ttl == 1    \* CacheManager.default_ttl, in clock ticks
EvictBuffer == 10   \* "+ 10  # Remove extra for buffer"
SweepEvery == 50    \* "len(self.cache) % 50 == 0"

None == <<>>
Some(v) == <<v>>

Min(a, b) == IF a < b THEN a ELSE b

Range(s) == {s[i] : i \in 1..Len(s)}

\* s[:k] for k >= 0
Take(s, k) == SubSeq(s, 1, Min(k, Len(s)))

\* The ttl arguments tried: omitted (None), 0, and a ttl longer than the default.
ArgTtls == {None, Some(0), Some(default_ttl + 1)}

\* The max_size values tried: below, at, just above and above the eviction
\* buffer, and the size at which an overflowing insert makes len(cache) a
\* multiple of 50.
MaxSizes == {0, 1, 2, EvictBuffer, EvictBuffer + 1, EvictBuffer + 2, SweepEvery - 1}

\* Entries already stored when a behaviour starts: keys 1..Prefill(m), each
\* written by a set(key, 0, ttl) at time 0, key 2 with the longer ttl and the
\* others with the default.
Prefill(m) == IF m <= 1 THEN 0 ELSE m

PrefillTtl(k) == IF k = 2 THEN Some(default_ttl + 1) ELSE None

\* The keys the calls of a behaviour use: the oldest stored key (a new key when
\* nothing is stored) and two new ones.
OpKeys(m) == {1, Prefill(m) + 1, Prefill(m) + 2}

(***************************************************************************)
(* CacheManager                                                            *)
(***************************************************************************)
NewEntry(k, d, t, exp) ==
    [key |-> k, data |-> d, created_at |-> t, last_accessed |-> t,
     expires_at |-> exp, access_count |-> 1]

\* position of key k in the dict, 0 when absent ("key in self.cache")
IndexOf(c, k) ==
    IF \E i \in 1..Len(c) : c[i].key = k
    THEN CHOOSE i \in 1..Len(c) : c[i].key = k
    ELSE 0

Has(c, k) == IndexOf(c, k) # 0

\* del self.cache[key]
Del(c, k) == SelectSeq(c, LAMBDA e : e.key # k)

IsExpiredInclusive(e, t) == t >= e.expires_at

\* "current_time > entry['expires_at']"
IsExpired(e, t) == t > e.expires_at

\* _cleanup_expired
CleanupExpired(c, t) == SelectSeq(c, LAMBDA e : ~IsExpired(e, t))

InsertionRank(c, i) == i - 1

SortRankNewestFirst(c, i) ==
    Cardinality({j \in 1..Len(c) :
        \/ c[j].last_accessed > c[i].last_accessed
        \/ c[j].last_accessed = c[i].last_accessed /\ j > i})

\* position (from 0) of entry i in sorted(items, key=last_accessed); the sort is
\* stable, so equal keys keep their dict order
SortRank(c, i) ==
    Cardinality({j \in 1..Len(c) :
        \/ c[j].last_accessed < c[i].last_accessed
        \/ c[j].last_accessed = c[i].last_accessed /\ j < i})

EntriesToRemoveSignSlip(c, m) == Len(c) - m - EvictBuffer

EntriesToRemoveNoBuffer(c, m) == Len(c) - m

\* "entries_to_remove = len(self.cache) - self.max_size + 10"
EntriesToRemove(c, m) == Len(c) - m + EvictBuffer

\* _cleanup_lru
CleanupLru(c, m) ==
    IF Len(c) <= m THEN c
    ELSE LET n == EntriesToRemove(c, m)
             victims == {c[i].key : i \in {j \in 1..Len(c) : SortRank(c, j) < n}}
         IN  SelectSeq(c, LAMBDA e : e.key \notin victims)

CmGetKeepsExpired(c, k, t) ==
    LET i == IndexOf(c, k) IN
    IF i = 0 \/ IsExpired(c[i], t) THEN [cache |-> c, value |-> None]
    ELSE [cache |-> [c EXCEPT ![i].last_accessed = t,
                              ![i].access_count = c[i].access_count + 1],
          value |-> Some(c[i].data)]

\* get: the new store and the value returned
CmGet(c, k, t) ==
    LET i == IndexOf(c, k) IN
    IF i = 0 THEN [cache |-> c, value |-> None]
    ELSE IF IsExpired(c[i], t) THEN [cache |-> Del(c, k), value |-> None]
    ELSE [cache |-> [c EXCEPT ![i].last_accessed = t,
                              ![i].access_count = c[i].access_count + 1],
          value |-> Some(c[i].data)]

\* "ttl or self.default_ttl"
EffTtl(ttl, dttl) == IF ttl = None \/ ttl[1] = 0 THEN dttl ELSE ttl[1]

\* set, first part: self.cache[key] = {...}
SetInsert(c, dttl, k, d, ttl, t) ==
    LET e == NewEntry(k, d, t, t + EffTtl(ttl, dttl))
        i == IndexOf(c, k)
    IN  IF i = 0 THEN Append(c, e) ELSE [c EXCEPT ![i] = e]

SetSweepNever(c, t) == c

SetSweepEveryWrite(c, t) == CleanupExpired(c, t)

\* set, second part: "if len(self.cache) % 50 == 0: self._cleanup_expired()"
SetSweep(c, t) == IF Len(c) % SweepEvery = 0 THEN CleanupExpired(c, t) ELSE c

\* set, third part: "if len(self.cache) > self.max_size: self._cleanup_lru()"
SetEvict(c, m) == IF Len(c) > m THEN CleanupLru(c, m) ELSE c

\* set: the store before the capacity check (mid) and the store it leaves
CmSet(c, m, dttl, k, d, ttl, t) ==
    LET mid == SetSweep(SetInsert(c, dttl, k, d, ttl, t), t)
    IN  [mid |-> mid, cache |-> SetEvict(mid, m)]

\* invalidate
CmInvalidate(c, k) == IF Has(c, k) THEN Del(c, k) ELSE c

\* get_stats
CmStats(c, t) ==
    LET expired == Cardinality({i \in 1..Len(c) : IsExpired(c[i], t)})
    IN  [total_entries |-> Len(c), expired_entries |-> expired,
         active_entries |-> Len(c) - expired]

(***************************************************************************)
(* The CacheManager as a state machine: one action per method, each atomic *)
(* (every method body runs under "with self.lock").                        *)
(***************************************************************************)
\* last.writes counts the set calls made so far, those that stored the entries
\* present at the start included
NoCall == [op |-> "none", key |-> 0, ttl |-> None, value |-> None, at |-> 0,
           pre |-> <<>>, mid |-> <<>>, writes |-> 0]

PrefilledCache(m) ==
    [i \in 1..Prefill(m) |-> NewEntry(i, 0, 0, EffTtl(PrefillTtl(i), default_ttl))]

\* The request-handler threads of the lock-level model, and no thread.
Threads == {"t1", "t2"}

NoThread == "none"

ThreadsIdle ==
    /\ lock = NoThread
    /\ pc = [t \in Threads |-> "idle"]
    /\ call = [t \in Threads |-> NoCall]
    /\ todo = [t \in Threads |-> <<>>]

NoRequest ==
    [q |-> <<>>, n |-> 0, vo |-> FALSE, status |-> 0, query |-> <<>>, results |-> <<>>,
     cached |-> FALSE, pool |-> <<>>, enforced |-> FALSE,
     ytm |-> "none", aio |-> "none", from_ytm |-> <<>>, from_aio |-> <<>>]

\* the search handler has served nothing and the sources are not used
SearchUnused ==
    /\ ENFORCE_VERIFIED_ONLY = FALSE
    /\ search_cache = <<>>
    /\ video_cache = <<>>
    /\ catalog = <<>>
    /\ resp = NoRequest

\* extract_video_id was not called
NormUnused == norm = [input |-> None, outs |-> <<>>]

\* a thread that serves no search request
NoHandler == [at |-> "idle", q |-> <<>>, n |-> 0, vo |-> FALSE, original |-> FALSE]

HandlersIdle == handlers = [t \in Threads |-> NoHandler]

\* no audio request was made (0 stands for "no status yet")
NoAudio ==
    [track |-> [form |-> "none", id |-> ""], range |-> None, status |-> 0,
     resolved |-> FALSE,
     extracted |-> None, fetched |-> FALSE, fwd_range |-> None,
     content_range |-> None]

NoUpstream ==
    [state |-> "none", status |-> 0, content_range |-> None, rest |-> <<>>,
     fails |-> FALSE, closed_by |-> "none", body |-> <<>>, broke |-> FALSE]

AudioUnused ==
    /\ audio = NoAudio
    /\ upstream = NoUpstream
    /\ gen = "none"
    /\ sent = <<>>

\* no video has been probed
FilterUnused ==
    /\ probe_info = None
    /\ probe_flags = None
    /\ verdict = None
    /\ score = None

Init ==
    /\ ThreadsIdle
    /\ NormUnused
    /\ HandlersIdle
    /\ AudioUnused
    /\ SearchUnused
    /\ FilterUnused
    /\ now = 0
    /\ max_size \in MaxSizes
    /\ cache = PrefilledCache(max_size)
    /\ last = [NoCall EXCEPT !.writes = Prefill(max_size)]
    /\ written = [k \in OpKeys(max_size) |->
                    IF k <= Prefill(max_size)
                    THEN Some([data |-> 0, at |-> 0, ttl |-> PrefillTtl(k), touched |-> 0])
                    ELSE None]
    /\ nops = 0

Tick ==
    /\ now < MaxTime
    /\ now' = now + 1
    /\ UNCHANGED <<max_size, cache, last, written, nops, tvars, svars, xvars>>

Get(k) ==
    /\ nops < MaxOps
    /\ LET r == CmGet(cache, k, now) IN
       /\ cache' = r.cache
       /\ last' = [NoCall EXCEPT !.op = "get", !.key = k, !.value = r.value,
                                 !.at = now, !.pre = cache, !.mid = cache,
                                 !.writes = last.writes]
       /\ written' = IF r.value # None /\ written[k] # None
                     THEN [written EXCEPT ![k] = Some([written[k][1] EXCEPT !.touched = now])]
                     ELSE written
    /\ nops' = nops + 1
    /\ UNCHANGED <<now, max_size, tvars, svars, xvars>>

Set(k, ttl) ==
    /\ nops < MaxOps
    /\ LET d == nops + 1      \* each write stores a value not stored before
           r == CmSet(cache, max_size, default_ttl, k, d, ttl, now)
       IN  /\ cache' = r.cache
           /\ last' = [NoCall EXCEPT !.op = "set", !.key = k, !.ttl = ttl, !.at = now,
                                     !.value = Some(d), !.pre = cache, !.mid = r.mid,
                                     !.writes = last.writes + 1]
           /\ written' = [written EXCEPT ![k] =
                            Some([data |-> d, at |-> now, ttl |-> ttl, touched |-> now])]
    /\ nops' = nops + 1
    /\ UNCHANGED <<now, max_size, tvars, svars, xvars>>

Invalidate(k) ==
    /\ nops < MaxOps
    /\ cache' = CmInvalidate(cache, k)
    /\ last' = [NoCall EXCEPT !.op = "invalidate", !.key = k, !.at = now,
                              !.pre = cache, !.mid = cache, !.writes = last.writes]
    /\ written' = [written EXCEPT ![k] = None]
    /\ nops' = nops + 1
    /\ UNCHANGED <<now, max_size, tvars, svars, xvars>>

Next ==
    \/ Tick
    \/ \E k \in OpKeys(max_size) : Get(k)
    \/ \E k \in OpKeys(max_size), ttl \in ArgTtls : Set(k, ttl)
    \/ \E k \in OpKeys(max_size) : Invalidate(k)

Spec == Init /\ [][Next]_vars

(***************************************************************************)
(* The CacheManager at the level of its lock: request-handler threads call *)
(* get, set, invalidate and get_stats concurrently.  Each method body is   *)
(* "with self.lock:", entered only while no thread holds the lock; set is  *)
(* split into its statements (insert, sweep, capacity check) and each      *)
(* cleanup deletes one key per step.                                       *)
(***************************************************************************)
\* the sizes tried: one where an overflow evicts, one where the 50th entry sweeps
ConcSizes == {2, SweepEvery - 1}

ConcKeys(m) == {1, Prefill(m) + 1}

Methods == {"get", "set", "invalidate", "get_stats"}

LockFreeIgnored(l) == TRUE

\* Lock.acquire succeeds only on a lock nobody holds
LockFree(l) == l = NoThread

InitConc ==
    /\ ThreadsIdle
    /\ NormUnused
    /\ HandlersIdle
    /\ AudioUnused
    /\ FilterUnused
    /\ SearchUnused
    /\ now = 0
    /\ max_size \in ConcSizes
    /\ cache = PrefilledCache(max_size)
    /\ last = NoCall
    /\ written = [k \in ConcKeys(max_size) |-> None]
    /\ nops = 0

TickConc ==
    /\ now < MaxTime
    /\ now' = now + 1
    /\ UNCHANGED <<max_size, cache, last, written, nops, tvars, svars, xvars>>

\* a handler calls a CacheManager method and reaches its "with self.lock"
Call(t, op, k) ==
    /\ pc[t] = "idle"
    /\ nops < MaxOps
    /\ nops' = nops + 1
    /\ call' = [call EXCEPT ![t] = [NoCall EXCEPT !.op = op, !.key = k,
                                                  !.value = Some(nops + 1)]]
    /\ pc' = [pc EXCEPT ![t] = "acquire"]
    /\ UNCHANGED <<now, max_size, cache, last, written, lock, todo, svars, xvars>>

\* with self.lock: (enter)
Acquire(t) ==
    /\ pc[t] = "acquire"
    /\ LockFree(lock)
    /\ lock' = t
    /\ pc' = [pc EXCEPT ![t] = call[t].op]
    /\ UNCHANGED <<cvars, call, todo, svars, xvars>>

\* with self.lock: (leave)
Release(t) ==
    /\ pc[t] = "release"
    /\ lock' = IF lock = t THEN NoThread ELSE lock
    /\ pc' = [pc EXCEPT ![t] = "idle"]
    /\ UNCHANGED <<cvars, call, todo, svars, xvars>>

\* the body of get
GetBody(t) ==
    /\ pc[t] = "get"
    /\ LET r == CmGet(cache, call[t].key, now) IN
       /\ cache' = r.cache
       /\ call' = [call EXCEPT ![t].value = r.value, ![t].at = now, ![t].pre = cache]
    /\ pc' = [pc EXCEPT ![t] = "release"]
    /\ UNCHANGED <<now, max_size, last, written, nops, lock, todo, svars, xvars>>

\* the body of invalidate
InvalidateBody(t) ==
    /\ pc[t] = "invalidate"
    /\ cache' = CmInvalidate(cache, call[t].key)
    /\ call' = [call EXCEPT ![t].at = now, ![t].pre = cache]
    /\ pc' = [pc EXCEPT ![t] = "release"]
    /\ UNCHANGED <<now, max_size, last, written, nops, lock, todo, svars, xvars>>

\* the body of get_stats
StatsBody(t) ==
    /\ pc[t] = "get_stats"
    /\ call' = [call EXCEPT ![t].value = Some(CmStats(cache, now)), ![t].at = now,
                            ![t].pre = cache]
    /\ pc' = [pc EXCEPT ![t] = "release"]
    /\ UNCHANGED <<cvars, lock, todo, svars, xvars>>

\* set: self.cache[key] = {...}
SetInsertStep(t) ==
    /\ pc[t] = "set"
    /\ cache' = SetInsert(cache, default_ttl, call[t].key, call[t].value[1], None, now)
    /\ call' = [call EXCEPT ![t].at = now, ![t].pre = cache]
    /\ pc' = [pc EXCEPT ![t] = "sweep"]
    /\ UNCHANGED <<now, max_size, last, written, nops, lock, todo, svars, xvars>>

\* the keys of a sequence of entries, in its order
KeysOf(c) == [i \in 1..Len(c) |-> c[i].key]

\* _cleanup_expired: expired_keys
ExpiredKeys(c, t) == KeysOf(SelectSeq(c, LAMBDA e : IsExpired(e, t)))

\* _cleanup_lru: the keys of the first entries_to_remove entries of sorted_entries
VictimKeys(c, m) ==
    LET n == EntriesToRemove(c, m)
        pos(r) == CHOOSE i \in 1..Len(c) : SortRank(c, i) = r
    IN  [r \in 1..Min(n, Len(c)) |-> c[pos(r - 1)].key]

\* set: "if len(self.cache) % 50 == 0", and _cleanup_expired up to its list
\* expired_keys
SweepStart(t) ==
    /\ pc[t] = "sweep"
    /\ IF Len(cache) % SweepEvery = 0
       THEN /\ todo' = [todo EXCEPT ![t] = ExpiredKeys(cache, now)]
            /\ pc' = [pc EXCEPT ![t] = "sweep_del"]
       ELSE /\ todo' = todo
            /\ pc' = [pc EXCEPT ![t] = "capacity"]
    /\ UNCHANGED <<cvars, lock, call, svars, xvars>>

\* one "del self.cache[key]" of a cleanup loop, or the end of the loop
DeleteStep(t, at, then) ==
    /\ pc[t] = at
    /\ IF todo[t] = <<>>
       THEN /\ pc' = [pc EXCEPT ![t] = then]
            /\ UNCHANGED <<cache, todo>>
       ELSE /\ cache' = Del(cache, Head(todo[t]))
            /\ todo' = [todo EXCEPT ![t] = Tail(todo[t])]
            /\ pc' = pc
    /\ UNCHANGED <<now, max_size, last, written, nops, lock, call, svars, xvars>>

SweepDelete(t) == DeleteStep(t, "sweep_del", "capacity")

\* set: "if len(self.cache) > self.max_size", and _cleanup_lru up to its sorted
\* list and its count
CapacityCheck(t) ==
    /\ pc[t] = "capacity"
    /\ IF Len(cache) > max_size
       THEN /\ todo' = [todo EXCEPT ![t] = VictimKeys(cache, max_size)]
            /\ pc' = [pc EXCEPT ![t] = "evict_del"]
            /\ call' = [call EXCEPT ![t].mid = cache]
       ELSE /\ pc' = [pc EXCEPT ![t] = "release"]
            /\ UNCHANGED <<todo, call>>
    /\ UNCHANGED <<cvars, lock, svars, xvars>>

EvictDelete(t) == DeleteStep(t, "evict_del", "release")

NextConc ==
    \/ TickConc
    \/ \E t \in Threads, op \in Methods, k \in ConcKeys(max_size) : Call(t, op, k)
    \/ \E t \in Threads : Acquire(t)
    \/ \E t \in Threads : Release(t)
    \/ \E t \in Threads : GetBody(t)
    \/ \E t \in Threads : InvalidateBody(t)
    \/ \E t \in Threads : StatsBody(t)
    \/ \E t \in Threads : SetInsertStep(t)
    \/ \E t \in Threads : SweepStart(t)
    \/ \E t \in Threads : SweepDelete(t)
    \/ \E t \in Threads : CapacityCheck(t)
    \/ \E t \in Threads : EvictDelete(t)

SpecConc == InitConc /\ [][NextConc]_vars

\* thread t is inside a method body, about to read or write the store
InBody(t) == pc[t] \in {"get", "set", "invalidate", "get_stats",
                        "sweep", "sweep_del", "capacity", "evict_del"}

\* thread t has inserted its entry and has not finished its sweep and eviction
MidSet(t) == pc[t] \in {"sweep", "sweep_del", "capacity", "evict_del"}

\* C6: under any interleaving of concurrent calls each call is atomic: no call
\* runs its body on a store in which another thread's set has inserted but not
\* finished its sweep and eviction, or has deleted only part of what it deletes.
C6_CallsAtomic ==
    \A t \in Threads : \A u \in Threads \ {t} : ~(InBody(t) /\ MidSet(u))

\* a set has deleted part of what its eviction removes while another call waits
C6_Witness ==
    \E t \in Threads : \E u \in Threads \ {t} :
        /\ pc[u] = "evict_del"
        /\ todo[u] # <<>>
        /\ Len(cache) < Len(call[u].mid)
        /\ pc[t] = "acquire"

(***************************************************************************)
(* Properties of the CacheManager                                          *)
(***************************************************************************)
\* the last call was get(k) and k had been written by a set not yet invalidated
GetOfWritten == last.op = "get" /\ written[last.key] # None

LastWrite == written[last.key][1]

\* the entries the capacity eviction of the last set removed
LruRan == last.op = "set" /\ Len(last.mid) > max_size

LruRemoved == {e \in Range(last.mid) : ~Has(cache, e.key)}

\* len(self.cache) right after the insertion of the last set
InsertedLen == Len(last.pre) + (IF Has(last.pre, last.key) THEN 0 ELSE 1)

\* C1 (as stated, for a set with a positive ttl whose entry no eviction has
\* removed): after set(k, v, ttl=t) with no later set or invalidate of k, get(k)
\* returns v whenever the time elapsed since the set is < t, and absent whenever
\* it is >= t.
C1_GetAfterSetStrict ==
    GetOfWritten /\ Has(last.pre, last.key) =>
        LET w == LastWrite
            t == IF w.ttl = None THEN default_ttl ELSE w.ttl[1]
            elapsed == last.at - w.at
        IN  t > 0 =>
              /\ elapsed < t => last.value = Some(w.data)
              /\ elapsed >= t => last.value = None

\* C1 (amended): after set(k, v, ttl=t), with t' = t, or default_ttl when t is
\* omitted or 0, and with no later set or invalidate of k, a get(k) that finds the
\* entry still stored returns v whenever the elapsed time is <= t' and absent
\* whenever it is > t'.
C1_GetAfterSetWhileStored ==
    GetOfWritten /\ Has(last.pre, last.key) =>
        LET w == LastWrite
            t == IF w.ttl = None \/ w.ttl[1] = 0 THEN default_ttl ELSE w.ttl[1]
            elapsed == last.at - w.at
        IN  /\ elapsed <= t => last.value = Some(w.data)
            /\ elapsed > t => last.value = None

\* a get exactly t' after the set, which still returns the value
C1_Witness ==
    /\ GetOfWritten /\ Has(last.pre, last.key)
    /\ LastWrite.ttl # None /\ LastWrite.ttl[1] > 0
    /\ last.at - LastWrite.at = LastWrite.ttl[1]
    /\ last.value = Some(LastWrite.data)

\* C2: get(k) of an entry whose expires_at is before the current time returns
\* absent and removes the entry; otherwise it returns the stored value, sets
\* last_accessed to now, adds one to access_count, and changes no other entry.
C2_GetContract ==
    last.op = "get" /\ Has(last.pre, last.key) =>
        LET pre == last.pre
            i == IndexOf(pre, last.key)
        IN  IF pre[i].expires_at < last.at
            THEN /\ last.value = None
                 /\ cache = SelectSeq(pre, LAMBDA e : e.key # last.key)
            ELSE /\ last.value = Some(pre[i].data)
                 /\ cache = [j \in 1..Len(pre) |->
                               IF j = i
                               THEN [pre[i] EXCEPT !.last_accessed = last.at,
                                                   !.access_count = pre[i].access_count + 1]
                               ELSE pre[j]]

\* a get of an expired entry while other entries are stored
C2_Witness ==
    /\ last.op = "get" /\ Has(last.pre, last.key)
    /\ last.pre[IndexOf(last.pre, last.key)].expires_at < last.at
    /\ Len(last.pre) >= 2
    /\ last.value = None

\* C3: between calls the number of stored entries is at most max_size, for
\* every max_size >= 0, also one smaller than the eviction buffer.
C3_SizeBound == Len(cache) <= max_size

\* a set that overflowed a cache whose max_size is positive and below the buffer
C3_Witness ==
    /\ LruRan
    /\ 0 < max_size /\ max_size < EvictBuffer

\* C4: the entries a capacity eviction removes are the least recently accessed:
\* every survivor's last_accessed is >= that of every removed entry, and each
\* last_accessed is the time of the latest successful get or set of its key.
C4_LruOrder ==
    LruRan =>
        /\ \A s \in Range(cache) : \A r \in LruRemoved :
               s.last_accessed >= r.last_accessed
        /\ \A e \in Range(last.mid) :
               e.last_accessed =
                   (IF e.key \in DOMAIN written THEN written[e.key][1].touched ELSE 0)

\* an eviction that spared an older key because a get had refreshed it
C4_Witness ==
    /\ LruRan
    /\ \E s \in Range(cache) : \E r \in LruRemoved :
           /\ s.key # last.key
           /\ s.key < r.key
           /\ s.last_accessed > r.last_accessed

\* C5 (as stated): whenever a set performs capacity eviction the expiry sweep has
\* run first: the eviction never removes an unexpired entry while an expired
\* entry is in the store.
C5_SweepAlwaysFirst ==
    LruRan =>
        ~ /\ \E r \in LruRemoved : r.expires_at >= last.at
          /\ \E e \in Range(last.mid) : e.expires_at < last.at

\* C5 (amended): in a set whose insertion makes len(cache) a multiple of 50 the
\* sweep runs before the capacity check, so a capacity eviction in that call
\* finds no expired entry in the store.
C5_SweepFirstOnMultiple ==
    LruRan /\ InsertedLen % SweepEvery = 0 =>
        \A e \in Range(last.mid) : e.expires_at >= last.at

\* a set that reached 50 entries, swept, and still had to evict
C5_Witness ==
    /\ LruRan
    /\ InsertedLen % SweepEvery = 0
    /\ Len(cache) < Len(last.mid)

\* the store of the last set right after its insertion
Inserted ==
    SetInsert(last.pre, default_ttl, last.key, last.value[1], last.ttl, last.at)

\* the sweep of the last set left no expired entry and removed no other
SweptClean ==
    /\ \A e \in Range(last.mid) : ~IsExpired(e, last.at)
    /\ \A e \in Range(Inserted) : ~IsExpired(e, last.at) => e \in Range(last.mid)

\* C29 (as stated): the expiry sweep is triggered on every 50th write, counted
\* in set calls regardless of how many entries are stored, and on no other
\* write; when it runs it removes every expired entry and no unexpired one.
C29_SweepEveryNthWrite ==
    last.op = "set" =>
        IF last.writes % SweepEvery = 0 THEN SweptClean ELSE last.mid = Inserted

\* C29 (amended): the expiry sweep is triggered by exactly those set calls
\* whose insertion leaves a number of stored entries that is a multiple of 50;
\* when it runs it removes every expired entry and no unexpired one.
C29_SweepOnMultipleStored ==
    last.op = "set" =>
        IF InsertedLen % SweepEvery = 0 THEN SweptClean ELSE last.mid = Inserted

\* a set that made the store 50 entries long: the sweep removed the expired
\* entries and kept an older one that had not expired
C29_Witness ==
    /\ last.op = "set"
    /\ InsertedLen % SweepEvery = 0
    /\ Len(last.mid) < InsertedLen
    /\ \E e \in Range(last.mid) : e.key # last.key

\* C30: whenever a set finds the store above max_size, the eviction leaves
\* exactly max_size - 10 entries, or none when max_size is below 10; a set that
\* does not overflow removes no unexpired entry.
C30_EvictionLeavesBufferFree ==
    last.op = "set" =>
        IF LruRan
        THEN Len(cache) = (IF max_size >= EvictBuffer THEN max_size - EvictBuffer ELSE 0)
        ELSE \A e \in Range(Inserted) : ~IsExpired(e, last.at) => e \in Range(cache)

\* an overflowing set with max_size above the buffer that left max_size - 10
\* entries
C30_Witness ==
    /\ LruRan
    /\ max_size > EvictBuffer
    /\ Len(cache) = max_size - EvictBuffer

\* an overflowing set with max_size below the buffer that emptied the store
C30_WitnessSmall ==
    /\ LruRan
    /\ 0 < max_size /\ max_size < EvictBuffer
    /\ cache = <<>>

\* a set that swept expired entries and did not overflow
C30_WitnessNoOverflow ==
    /\ last.op = "set" /\ ~LruRan
    /\ Len(last.mid) < InsertedLen
    /\ Len(cache) >= 2

\* the store holds the key of the last set with the value that set wrote
HoldsWritten ==
    /\ Has(cache, last.key)
    /\ cache[IndexOf(cache, last.key)].data = last.value[1]

\* C32 (as stated): a set never evicts the entry it has just written: for every
\* max_size >= 1 and every prior content, right after set(k, v) returns the
\* store holds k with value v, also when that set swept and evicted.
C32_WrittenEntryStays ==
    (last.op = "set" /\ max_size >= 1) => HoldsWritten

\* C32 (amended): the same for every max_size above the eviction buffer of 10.
C32_WrittenEntryStaysAboveBuffer ==
    (last.op = "set" /\ max_size > EvictBuffer) => HoldsWritten

\* a set that made the store 50 entries long (the sweep ran), overflowed, and
\* whose entry is still stored after the eviction
C32_Witness ==
    /\ LruRan
    /\ InsertedLen % SweepEvery = 0
    /\ max_size > EvictBuffer
    /\ Len(cache) < Len(last.mid)
    /\ HoldsWritten

(***************************************************************************)
(* Candidate normalizer.  A raw identifier is a record: form "bare" is an  *)
(* 11-character id, "watch" a watch URL carrying the id, "junk" a string   *)
(* shorter than 11 characters that no pattern matches, "none" None or "".  *)
(***************************************************************************)
Bare(id) == [form |-> "bare", id |-> id]

WatchUrl(id) == [form |-> "watch", id |-> id]

Junk == [form |-> "junk", id |-> "abc"]

NoId == [form |-> "none", id |-> ""]

\* "if not x" for an identifier
Falsy(raw) == raw.form = "none"

\* extract_video_id
ExtractVideoId(raw) ==
    CASE raw.form = "none" -> NoId
      [] raw.form = "bare" -> raw
      [] raw.form = "watch" -> Bare(raw.id)
      [] OTHER -> raw       \* shorter than 11 characters: returned as it is

(***************************************************************************)
(* Filter and score engine                                                 *)
(***************************************************************************)
MIN_TRACK_SECS == 75
MAX_TRACK_SECS == 600
HourSecs == 3600            \* "if d > 3600"

\* OAC_ALLOWLIST: one channel id stands for the nine listed
OAC_ALLOWLIST == {"UCvevo"}

LooksLikeMusicLenUpToHour(secs) == MIN_TRACK_SECS <= secs /\ secs <= HourSecs

\* looks_like_music_len
LooksLikeMusicLen(secs) == MIN_TRACK_SECS <= secs /\ secs <= MAX_TRACK_SECS

\* str.lower() on the category names used here
Lower(c) ==
    CASE c = "Music" -> "music"
      [] c = "Gaming" -> "gaming"
      [] OTHER -> c

\* "[c.lower() for c in (info.get('categories') or [])]"
LowerAll(categories) == [i \in 1..Len(categories) |-> Lower(categories[i])]

\* probe_with_ytdlp: the flags computed from the info dict of the extraction
\* engine (title_bad and title_good are the outcomes of the two title tests)
FlagsOf(info) ==
    [duration |-> info.duration,
     is_live |-> info.is_live,
     is_music_cat |-> IF LowerAll(info.categories) # <<>>
                      THEN "music" \in Range(LowerAll(info.categories))
                      ELSE FALSE,
     verified |-> info.channel_id \in OAC_ALLOWLIST \/ info.verified_badge,
     embeddable |-> info.is_embed_allowed /\ ~(info.age_limit > 0),
     is_shorts_url |-> info.shorts_url,
     title_bad |-> info.title_bad,
     title_good |-> info.title_good,
     channel_id |-> info.channel_id,
     cats |-> LowerAll(info.categories)]

Verdict(keep, reason) == [keep |-> keep, reason |-> reason]

\* hard_keep with the live test moved in front of the duration tests
HardKeepLiveFirst(flags, enforce) ==
    IF flags.is_live THEN Verdict(FALSE, "live")
    ELSE IF flags.duration < MIN_TRACK_SECS THEN Verdict(FALSE, "too-short")
    ELSE IF flags.duration > HourSecs THEN Verdict(FALSE, "too-long-hour-plus")
    ELSE IF flags.is_shorts_url THEN Verdict(FALSE, "shorts-url")
    ELSE IF flags.cats # <<>> /\ ~flags.is_music_cat
         THEN Verdict(FALSE, "not-music-category")
    ELSE IF ~flags.embeddable THEN Verdict(FALSE, "not-embeddable")
    ELSE IF flags.title_bad THEN Verdict(FALSE, "bad-title")
    ELSE IF enforce /\ ~flags.verified THEN Verdict(FALSE, "not-verified")
    ELSE Verdict(TRUE, "ok")

\* hard_keep demanding the music category even when no category is reported
HardKeepNeedsCategory(flags, enforce) ==
    IF flags.duration < MIN_TRACK_SECS THEN Verdict(FALSE, "too-short")
    ELSE IF flags.duration > HourSecs THEN Verdict(FALSE, "too-long-hour-plus")
    ELSE IF flags.is_live THEN Verdict(FALSE, "live")
    ELSE IF flags.is_shorts_url THEN Verdict(FALSE, "shorts-url")
    ELSE IF ~flags.is_music_cat THEN Verdict(FALSE, "not-music-category")
    ELSE IF ~flags.embeddable THEN Verdict(FALSE, "not-embeddable")
    ELSE IF flags.title_bad THEN Verdict(FALSE, "bad-title")
    ELSE IF enforce /\ ~flags.verified THEN Verdict(FALSE, "not-verified")
    ELSE Verdict(TRUE, "ok")

\* hard_keep, reading the global ENFORCE_VERIFIED_ONLY (enforce)
HardKeep(flags, enforce) ==
    IF flags.duration < MIN_TRACK_SECS THEN Verdict(FALSE, "too-short")
    ELSE IF flags.duration > HourSecs THEN Verdict(FALSE, "too-long-hour-plus")
    ELSE IF flags.is_live THEN Verdict(FALSE, "live")
    ELSE IF flags.is_shorts_url THEN Verdict(FALSE, "shorts-url")
    ELSE IF flags.cats # <<>> /\ ~flags.is_music_cat
         THEN Verdict(FALSE, "not-music-category")
    ELSE IF ~flags.embeddable THEN Verdict(FALSE, "not-embeddable")
    ELSE IF flags.title_bad THEN Verdict(FALSE, "bad-title")
    ELSE IF enforce /\ ~flags.verified THEN Verdict(FALSE, "not-verified")
    ELSE Verdict(TRUE, "ok")

\* music_score
MusicScore(flags) ==
    (IF flags.verified THEN 15 ELSE 0)
    + (IF LooksLikeMusicLen(flags.duration) THEN 8 ELSE 0)
    + (IF flags.title_good THEN 3 ELSE 0)
    + (IF flags.is_music_cat THEN 4 ELSE 0)

(***************************************************************************)
(* The external collaborators: what the extraction engine knows about each *)
(* track, and what the catalog sources answer.                             *)
(***************************************************************************)
Ids == {"idA", "idB", "idC", "idD"}

OfficialAudio ==
    [duration |-> 200, is_live |-> FALSE, categories |-> <<"music">>,
     channel_id |-> "UCvevo", verified_badge |-> FALSE, is_embed_allowed |-> TRUE,
     age_limit |-> 0, shorts_url |-> FALSE, title_bad |-> FALSE, title_good |-> TRUE]

\* ytdl.extract_info for a track: idA an official audio of a verified channel,
\* idB a live stream, idC a long upload of an unknown channel, idD a 30 s clip
Info(id) ==
    CASE id = "idA" -> OfficialAudio
      [] id = "idB" -> [OfficialAudio EXCEPT !.is_live = TRUE, !.channel_id = "UCfan",
                                            !.categories = <<>>, !.title_good = FALSE]
      [] id = "idC" -> [OfficialAudio EXCEPT !.duration = 700, !.channel_id = "UCfan",
                                            !.title_good = FALSE]
      [] id = "idD" -> [OfficialAudio EXCEPT !.duration = 30, !.channel_id = "UCfan"]

\* probe_with_ytdlp for a candidate: its flags, or None when extract_info raises
\* (an id the extraction engine does not know)
Probe(id) == IF id \in Ids THEN Some(FlagsOf(Info(id))) ELSE None

\* one result of ytm.search: its videoId and its duration_seconds
Hit(id) == [videoId |-> Bare(id), secs |-> Info(id).duration]

NoVideoHit == [videoId |-> NoId, secs |-> 0]

Answer(items) == [ok |-> TRUE, items |-> items]

Fails == [ok |-> FALSE, items |-> <<>>]

World(songs, videos, aio) == [songs |-> songs, videos |-> videos, aio |-> aio]

\* The answers tried: what ytm.search gives for filter songs and for filter
\* videos, and what aiotube.Search.videos gives.
Worlds ==
    { World(Answer(<<Hit("idA"), Hit("idB"), Hit("idC")>>), Answer(<<>>), Answer(<<>>)),
      World(Answer(<<Hit("idC")>>), Answer(<<Hit("idB")>>),
            Answer(<<WatchUrl("idC"), Bare("idA")>>)),
      World(Fails, Fails, Fails),
      World(Fails, Answer(<<Hit("idC"), Hit("idA")>>), Fails),
      World(Fails, Fails, Answer(<<WatchUrl("idC"), Bare("idA")>>)),
      World(Answer(<<Hit("idA")>>), Answer(<<>>), Fails),
      World(Answer(<<>>), Answer(<<>>),
            Answer(<<Bare("idB"), WatchUrl("idB"), Bare("idA"), Bare("idD")>>)),
      World(Answer(<<Hit("idD"), NoVideoHit, Hit("idB"), Hit("idB")>>), Fails, Fails),
      World(Answer(<<>>), Fails, Answer(<<Junk, NoId>>)),
      World(Answer(<<Hit("idA")>>), Answer(<<>>),
            Answer(<<Bare("idB"), WatchUrl("idA"), Bare("idC"), Bare("idD")>>)),
      World(Answer(<<Hit("idA")>>), Answer(<<>>),
            Answer(<<Bare("idB"), WatchUrl("idC"), Bare("idD"), Junk>>)),
      World(Answer(<<>>), Answer(<<>>), Answer(<<>>)) }

(***************************************************************************)
(* Discovery orchestrator: the search handler                              *)
(***************************************************************************)
SearchCacheSize == 500      \* search_cache = CacheManager(max_size=500, ...)
SearchDefaultTtl == 300
VideoCacheSize == 1000      \* video_cache = CacheManager(max_size=1000, ...)
VideoDefaultTtl == 1800
ResponseTtl == 300          \* search_cache.set(cache_key, response_data, ttl=300)
VideoTtl == 300             \* video_cache.set(clean_id, cache_data, ttl=300)
VideoFreshSecs == 300       \* "time.time() - cached_result['timestamp'] < 300"
DiscoverCap == 20           \* "limit=min(max_results, 20)"
AioCap == 20                \* "limit=min(max_results*2, 20)"
AssumedDuration == 210      \* "duration_seconds = 210"
AssumedScore == 3           \* "mscore = 3"

\* a query is its sequence of lower-case words
Queries == {<<>>, <<"believer">>, <<"believer", "music">>}

MaxResultsArgs == {0, 1, 2}

\* "f'{q} music' if 'music' not in q.lower() else q"
AugmentQuery(q) == IF "music" \in Range(q) THEN q ELSE Append(q, "music")

\* hashlib.md5(f"{search_query}:{max_results}"): the digest stands for its input
CacheKey(search_query, n) == <<search_query, n>>

\* search: the cache key of a request (verified_only is not part of it)
RequestKey(q, n, vo) == CacheKey(AugmentQuery(q), n)

\* the loop body shared by both passes of ytmusic_discover; full records that
\* the loop was left because len(out) >= limit
RECURSIVE ScanResults(_, _, _)
ScanResults(rs, out, limit) ==
    IF rs = <<>> THEN [out |-> out, full |-> FALSE]
    ELSE LET r == Head(rs)
             skip == \/ Falsy(r.videoId)
                     \/ r.videoId \in Range(out)
                     \/ r.secs # 0 /\ r.secs < MIN_TRACK_SECS
         IN  IF skip THEN ScanResults(Tail(rs), out, limit)
             ELSE IF Len(out) + 1 >= limit
                  THEN [out |-> Append(out, r.videoId), full |-> TRUE]
                  ELSE ScanResults(Tail(rs), Append(out, r.videoId), limit)

\* ytmusic_discover: a failed ytm.search is caught and leaves out as it is
YtmusicDiscover(songs, videos, limit) ==
    LET first == IF songs.ok THEN ScanResults(Take(songs.items, limit), <<>>, limit)
                 ELSE [out |-> <<>>, full |-> FALSE]
    IN  IF first.full THEN first.out
        ELSE IF videos.ok
             THEN ScanResults(Take(videos.items, limit * 2), first.out, limit).out
             ELSE first.out

NotSeenAlways(cid, seen) == TRUE

\* search: "cid not in seen"
NotSeen(cid, seen) == cid \notin seen

\* search: "Clean + dedupe" of the aiotube results
RECURSIVE MoreIds(_, _)
MoreIds(more, seen) ==
    IF more = <<>> THEN <<>>
    ELSE LET cid == ExtractVideoId(Head(more))
         IN  IF ~Falsy(cid) /\ NotSeen(cid, seen)
             THEN <<cid>> \o MoreIds(Tail(more), seen \cup {cid})
             ELSE MoreIds(Tail(more), seen)

\* search: the per-track data the loop uses when the video cache has none
BasicData(t) ==
    [duration |-> AssumedDuration, is_verified |-> FALSE, mscore |-> AssumedScore,
     timestamp |-> t]

\* search: one entry of results
Track(clean_id, data) ==
    [id |-> clean_id.id, duration |-> data.duration, embeddable |-> TRUE,
     isVerified |-> data.is_verified, musicScore |-> data.mscore]

EnoughNever(results, n) == FALSE

\* search: "if len(results) >= max_results: break"
Enough(results, n) == Len(results) >= n

\* search: the candidate loop, from the video cache vc and the results so far
RECURSIVE ProcessIds(_, _, _, _, _)
ProcessIds(ids, vc, results, n, t) ==
    IF ids = <<>> THEN [video_cache |-> vc, results |-> results]
    ELSE LET clean_id == ExtractVideoId(Head(ids)) IN
         IF Falsy(clean_id) THEN ProcessIds(Tail(ids), vc, results, n, t)
         ELSE LET got == CmGet(vc, clean_id, t)
                  fresh == got.value # None /\ t - got.value[1].timestamp < VideoFreshSecs
                  data == IF fresh THEN got.value[1] ELSE BasicData(t)
                  vc2 == IF fresh THEN got.cache
                         ELSE CmSet(got.cache, VideoCacheSize, VideoDefaultTtl, clean_id,
                                    data, Some(VideoTtl), t).cache
                  results2 == Append(results, Track(clean_id, data))
              IN  IF Enough(results2, n)
                  THEN [video_cache |-> vc2, results |-> results2]
                  ELSE ProcessIds(Tail(ids), vc2, results2, n, t)

SortByScoreTiesReversed(results) ==
    LET rank(i) == Cardinality({j \in 1..Len(results) :
                       \/ results[j].musicScore > results[i].musicScore
                       \/ results[j].musicScore = results[i].musicScore /\ j > i})
    IN  [r \in 1..Len(results) |->
            results[CHOOSE i \in 1..Len(results) : rank(i) = r - 1]]

\* results.sort(key=musicScore, reverse=True): stable, highest score first
SortByScore(results) ==
    LET rank(i) == Cardinality({j \in 1..Len(results) :
                       \/ results[j].musicScore > results[i].musicScore
                       \/ results[j].musicScore = results[i].musicScore /\ j < i})
    IN  [r \in 1..Len(results) |->
            results[CHOOSE i \in 1..Len(results) : rank(i) = r - 1]]

CacheHitNever(cached_data) == FALSE

\* search: "if cached_data:" (a stored response is a non-empty dict)
CacheHit(cached_data) == cached_data # None

BothFailedAlways(ids) == TRUE

SupplementAlways(ids, n) == TRUE

\* search: "if len(ids) < max_results:" before the aiotube supplement
Supplement(ids, n) == Len(ids) < n

\* search: "if not ids:  # If both failed"
BothFailed(ids) == ids = <<>>

\* search, for a request q, max_results n, verifiedOnly vo: the response, the
\* caches and the global switch it leaves.  The response record also keeps what
\* the request did: ytm and aio say whether the source was called and answered
\* ("ok"), was called and raised on every search it was asked ("failed"), or
\* was not called ("none"); from_ytm and from_aio are the candidates it gave.
SearchHandler(q, n, vo, enforce, sc, vc, cat, t) ==
    LET req == [NoRequest EXCEPT !.q = q, !.n = n, !.vo = vo]
        during == enforce \/ vo
        search_query == AugmentQuery(q)
        cache_key == RequestKey(q, n, vo)
        hit == CmGet(sc, cache_key, t)
        ids1 == YtmusicDiscover(cat.songs, cat.videos, Min(n, DiscoverCap))
        supplement == Supplement(ids1, n)
        more_ids == IF supplement /\ cat.aio.ok
                    THEN MoreIds(Take(cat.aio.items, Min(n * 2, AioCap)), Range(ids1))
                    ELSE <<>>
        ids2 == ids1 \o more_ids
        did == [ytm |-> IF ~cat.songs.ok /\ ~cat.videos.ok THEN "failed" ELSE "ok",
                aio |-> IF ~supplement THEN "none"
                        ELSE IF cat.aio.ok THEN "ok" ELSE "failed"]
        pool == Take(ids2, n * 2)
        done == ProcessIds(pool, vc, <<>>, n, t)
        results == SortByScore(done.results)
        body == [query |-> q, results |-> results]
    IN  IF q = <<>>
        THEN [enforce |-> enforce, search_cache |-> sc, video_cache |-> vc,
              resp |-> [req EXCEPT !.status = 400, !.enforced = enforce]]
        ELSE IF CacheHit(hit.value)
        THEN [enforce |-> during, search_cache |-> hit.cache, video_cache |-> vc,
              resp |-> [req EXCEPT !.status = 200, !.query = hit.value[1].query,
                                   !.results = hit.value[1].results, !.cached = TRUE,
                                   !.enforced = during]]
        ELSE IF supplement /\ ~cat.aio.ok /\ BothFailed(ids1)
        THEN [enforce |-> during, search_cache |-> hit.cache, video_cache |-> vc,
              resp |-> [req EXCEPT !.status = 500, !.enforced = during,
                                   !.ytm = did.ytm, !.aio = did.aio,
                                   !.from_ytm = ids1]]
        ELSE [enforce |-> enforce,
              search_cache |-> CmSet(hit.cache, SearchCacheSize, SearchDefaultTtl,
                                     cache_key, body, Some(ResponseTtl), t).cache,
              video_cache |-> done.video_cache,
              resp |-> [req EXCEPT !.status = 200, !.query = q, !.results = results,
                                   !.pool = pool, !.enforced = during,
                                   !.ytm = did.ytm, !.aio = did.aio,
                                   !.from_ytm = ids1, !.from_aio = more_ids]]

InitSearch ==
    /\ ThreadsIdle
    /\ NormUnused
    /\ HandlersIdle
    /\ AudioUnused
    /\ FilterUnused
    /\ now = 0
    /\ max_size = 0
    /\ cache = <<>>
    /\ last = NoCall
    /\ written = <<>>
    /\ nops = 0
    /\ ENFORCE_VERIFIED_ONLY = FALSE
    /\ search_cache = <<>>
    /\ video_cache = <<>>
    /\ catalog \in Worlds
    /\ resp = NoRequest

\* time passes between two requests
TickSearch ==
    /\ now < MaxTime * ResponseTtl
    /\ now' = now + ResponseTtl
    /\ UNCHANGED <<max_size, cache, last, written, nops, tvars, svars, xvars>>

\* GET search?q=..&maxResults=..&verifiedOnly=..
Search(q, n, vo) ==
    /\ nops < MaxOps
    /\ nops' = nops + 1
    /\ LET r == SearchHandler(q, n, vo, ENFORCE_VERIFIED_ONLY, search_cache, video_cache,
                              catalog, now)
       IN  /\ ENFORCE_VERIFIED_ONLY' = r.enforce
           /\ search_cache' = r.search_cache
           /\ video_cache' = r.video_cache
           /\ resp' = r.resp
    /\ UNCHANGED <<now, max_size, cache, last, written, tvars, catalog, xvars>>

NextSearch ==
    \/ TickSearch
    \/ \E q \in Queries, n \in MaxResultsArgs, vo \in BOOLEAN : Search(q, n, vo)

SpecSearch == InitSearch /\ [][NextSearch]_vars

(***************************************************************************)
(* Properties of the search handler                                        *)
(***************************************************************************)
\* the last request was answered with a list of tracks
Answered == resp.status = 200

\* C7: for every query and limit the results list of a search response has at
\* most limit entries, each with a musicScore >= that of the entry after it.
C7_AtMostLimitSorted ==
    Answered =>
        /\ Len(resp.results) <= resp.n
        /\ \A i \in 1..(Len(resp.results) - 1) :
               resp.results[i].musicScore >= resp.results[i + 1].musicScore

\* a fresh response that stopped at the limit with candidates left over
C7_Witness ==
    /\ Answered /\ ~resp.cached
    /\ resp.n >= 1
    /\ Len(resp.results) = resp.n
    /\ Len(resp.pool) > resp.n

\* C8: discovery never returns a candidate the hard filter rejects: every track
\* of a search response has probed metadata that passes all eight checks of
\* hard_keep under the verified-only mode of its request.
C8_OnlyKeptTracks ==
    Answered /\ ~resp.cached =>
        \A i \in 1..Len(resp.results) :
            LET probe == Probe(resp.results[i].id)
            IN  probe # None => HardKeep(probe[1], resp.enforced).keep

\* C9: for every track of a search response, musicScore is music_score of the
\* candidate's probe and isVerified is the probe's verified flag.
C9_ScoreFromProbe ==
    Answered /\ ~resp.cached =>
        \A i \in 1..Len(resp.results) :
            LET probe == Probe(resp.results[i].id)
            IN  probe # None =>
                  /\ resp.results[i].musicScore = MusicScore(probe[1])
                  /\ resp.results[i].isVerified = probe[1].verified

\* C10: a response to a request made with verifiedOnly=true holds only verified
\* tracks: isVerified is true, and no track of a channel that is neither on the
\* allow-list nor badged is returned.
C10_VerifiedOnly ==
    Answered /\ ~resp.cached /\ resp.vo =>
        \A i \in 1..Len(resp.results) :
            LET probe == Probe(resp.results[i].id)
            IN  probe # None => resp.results[i].isVerified /\ probe[1].verified

\* a response served from the response cache
C11_Witness == Answered /\ resp.cached /\ resp.results # <<>>

\* C11: when the response cache holds a non-expired response under the cache
\* key of a search request, the request returns exactly that response, calls
\* no catalog source, leaves the video (probe) cache as it was and writes no
\* entry of the response cache (the stored data and expiry times stay).
C11_CacheHitShortCuts ==
    [][ LET key == CacheKey(AugmentQuery(resp'.q), resp'.n)
            held == CmGet(search_cache, key, now)
        IN  (nops' = nops + 1 /\ resp'.q # <<>> /\ held.value # None) =>
              /\ resp'.status = 200
              /\ resp'.query = held.value[1].query
              /\ resp'.results = held.value[1].results
              /\ resp'.ytm = "none" /\ resp'.aio = "none"
              /\ video_cache' = video_cache
              /\ Len(search_cache') = Len(search_cache)
              /\ \A i \in 1..Len(search_cache) :
                     /\ search_cache'[i].key = search_cache[i].key
                     /\ search_cache'[i].data = search_cache[i].data
                     /\ search_cache'[i].created_at = search_cache[i].created_at
                     /\ search_cache'[i].expires_at = search_cache[i].expires_at
      ]_vars

\* the ids of the tracks of the last response
ResultIds == {resp.results[i].id : i \in 1..Len(resp.results)}

\* the ids of a list of candidates
IdsOf(cands) == {cands[i].id : i \in 1..Len(cands)}

\* the primary source failed and the secondary one gave the tracks returned
C12_Witness ==
    /\ Answered /\ ~resp.cached
    /\ resp.ytm = "failed" /\ resp.aio = "ok"
    /\ Len(resp.results) >= 2

\* the secondary source failed and the primary one gave the tracks returned
C12_WitnessSecondaryFailed ==
    /\ Answered /\ ~resp.cached
    /\ resp.ytm = "ok" /\ resp.aio = "failed"
    /\ resp.results # <<>>

\* C12: when one catalog source fails and the other yields a candidate, the
\* search request succeeds with tracks of the surviving source's candidates;
\* when both fail, and so no candidate was obtained, it ends with status 500.
C12_OneSourceFailing ==
    /\ (resp.ytm = "failed" /\ resp.aio = "ok" /\ resp.from_aio # <<>>) =>
          /\ resp.status = 200
          /\ resp.results # <<>>
          /\ ResultIds \subseteq IdsOf(resp.from_aio)
    /\ (resp.aio = "failed" /\ resp.ytm = "ok" /\ resp.from_ytm # <<>>) =>
          /\ resp.status = 200
          /\ resp.results # <<>>
          /\ ResultIds \subseteq IdsOf(resp.from_ytm)
    /\ (resp.ytm = "failed" /\ resp.aio = "failed") => resp.status = 500

(***************************************************************************)
(* Filter and score engine on its own: one video is probed, then hard_keep *)
(* and music_score are applied to its flags.                               *)
(***************************************************************************)
Durations ==
    {MIN_TRACK_SECS - 1, MIN_TRACK_SECS, MAX_TRACK_SECS, MAX_TRACK_SECS + 1,
     HourSecs, HourSecs + 1}

CategoryLists == {<<>>, <<"Music">>, <<"Gaming">>, <<"Gaming", "Music">>}

\* the info dicts tried: every combination of the fields, but a badge only on
\* a channel off the allow-list and an age limit only on an embeddable video
Infos ==
    {i \in [duration : Durations, is_live : BOOLEAN, categories : CategoryLists,
            channel_id : {"UCvevo", "UCfan"}, verified_badge : BOOLEAN,
            is_embed_allowed : BOOLEAN, age_limit : {0, 18}, shorts_url : BOOLEAN,
            title_bad : BOOLEAN, title_good : BOOLEAN] :
        /\ i.verified_badge => i.channel_id = "UCfan"
        /\ i.age_limit > 0 => i.is_embed_allowed}

InitFilter ==
    /\ ThreadsIdle
    /\ NormUnused
    /\ HandlersIdle
    /\ AudioUnused
    /\ FilterUnused
    /\ now = 0
    /\ max_size = 0
    /\ cache = <<>>
    /\ last = NoCall
    /\ written = <<>>
    /\ nops = 0
    /\ ENFORCE_VERIFIED_ONLY \in BOOLEAN
    /\ search_cache = <<>>
    /\ video_cache = <<>>
    /\ catalog = <<>>
    /\ resp = NoRequest

\* probe_with_ytdlp(video_id) for a video the extraction engine describes by i
ProbeWithYtdlp(i) ==
    /\ probe_flags = None
    /\ probe_info' = Some(i)
    /\ probe_flags' = Some(FlagsOf(i))
    /\ UNCHANGED <<verdict, score, cvars, tvars, svars, avars, nvars, hvars>>

\* hard_keep(flags)
HardKeepCall ==
    /\ probe_flags # None /\ verdict = None
    /\ verdict' = Some(HardKeep(probe_flags[1], ENFORCE_VERIFIED_ONLY))
    /\ UNCHANGED <<probe_info, probe_flags, score, cvars, tvars, svars, avars, nvars, hvars>>

\* music_score(flags)
MusicScoreCall ==
    /\ probe_flags # None /\ score = None
    /\ score' = Some(MusicScore(probe_flags[1]))
    /\ UNCHANGED <<probe_info, probe_flags, verdict, cvars, tvars, svars, avars, nvars, hvars>>

NextFilter ==
    \/ \E i \in Infos : ProbeWithYtdlp(i)
    \/ HardKeepCall
    \/ MusicScoreCall

SpecFilter == InitFilter /\ [][NextFilter]_vars

(***************************************************************************)
(* Properties of the filter and score engine                               *)
(***************************************************************************)
\* the eight rules of the hard filter, each on its own: rule r is violated by
\* the probed video under verified-only mode enforce
Violates(r, i, f, enforce) ==
    CASE r = 1 -> f.duration < MIN_TRACK_SECS
      [] r = 2 -> f.duration > HourSecs
      [] r = 3 -> f.is_live
      [] r = 4 -> f.is_shorts_url
      [] r = 5 -> i.categories # <<>> /\ "music" \notin Range(f.cats)
      [] r = 6 -> ~i.is_embed_allowed \/ i.age_limit > 0
      [] r = 7 -> f.title_bad
      [] r = 8 -> enforce /\ ~(i.channel_id \in OAC_ALLOWLIST \/ i.verified_badge)

Violated(i, f, enforce) == {r \in 1..8 : Violates(r, i, f, enforce)}

\* the earliest violated rule
FirstViolated(i, f, enforce) ==
    CHOOSE r \in Violated(i, f, enforce) : \A o \in Violated(i, f, enforce) : r <= o

\* the reasons hard_keep gives, by rule
CodeReasons ==
    <<"too-short", "too-long-hour-plus", "live", "shorts-url", "not-music-category",
      "not-embeddable", "bad-title", "not-verified">>

\* the reasons by rule as the claim names them
ClaimedReasons ==
    <<"too-short", "too-long", "live", "shorts", "not-music-category",
      "not-embeddable", "bad-title", "not-verified">>

\* hard_keep keeps exactly the probes violating no rule and otherwise reports
\* the reason that reasons gives for the earliest violated rule
KeepsByPrecedence(reasons) ==
    verdict # None =>
        LET i == probe_info[1]
            f == probe_flags[1]
            bad == Violated(i, f, ENFORCE_VERIFIED_ONLY)
        IN  /\ verdict[1].keep <=> bad = {}
            /\ bad # {} =>
                  verdict[1].reason = reasons[FirstViolated(i, f, ENFORCE_VERIFIED_ONLY)]

\* C13 (as stated): hard_keep keeps exactly the probes violating no rule, and
\* the reported reason is that of the earliest violated rule, the reasons being
\* too-short, too-long, live, shorts, not-music-category, not-embeddable,
\* bad-title, not-verified.
C13_ReasonsAsClaimed == KeepsByPrecedence(ClaimedReasons)

\* C13 (amended): hard_keep keeps exactly the probes violating no rule, and the
\* reported reason is that of the earliest violated rule in the fixed order,
\* the reasons being too-short, too-long-hour-plus, live, shorts-url,
\* not-music-category, not-embeddable, bad-title, not-verified.
C13_EarliestRuleReason == KeepsByPrecedence(CodeReasons)

\* a probe violating several rules, the live rule before the others
C13_Witness ==
    /\ verdict # None
    /\ Cardinality(Violated(probe_info[1], probe_flags[1], ENFORCE_VERIFIED_ONLY)) >= 3
    /\ FirstViolated(probe_info[1], probe_flags[1], ENFORCE_VERIFIED_ONLY) = 3

\* C14: a probe without category data is never rejected as not-music-category;
\* a probe with categories, none of them music, that passes the duration, live
\* and shorts checks is rejected as not-music-category.
C14_CategoryRule ==
    verdict # None =>
        LET i == probe_info[1]
            f == probe_flags[1]
        IN  /\ i.categories = <<>> => verdict[1].reason # "not-music-category"
            /\ ( /\ i.categories # <<>>
                 /\ \A k \in 1..Len(i.categories) : Lower(i.categories[k]) # "music"
                 /\ f.duration >= MIN_TRACK_SECS /\ f.duration <= HourSecs
                 /\ ~f.is_live /\ ~f.is_shorts_url )
               => verdict[1] = Verdict(FALSE, "not-music-category")

\* a probe without category data that hard_keep keeps
C14_Witness ==
    /\ verdict # None
    /\ probe_info[1].categories = <<>>
    /\ verdict[1].keep

\* a probe with a category other than music, rejected for it
C14_WitnessRejected ==
    /\ verdict # None
    /\ probe_info[1].categories = <<"Gaming">>
    /\ verdict[1].reason = "not-music-category"

\* the song-length window
InWindow(secs) == secs \in MIN_TRACK_SECS..MAX_TRACK_SECS

\* the weight of a signal that holds
Weight(holds, w) == IF holds THEN w ELSE 0

\* C15: music_score is 15 if verified + 8 if the duration is in the song-length
\* window + 3 if the title has a music-positive token + 4 if tagged music
\* category, so 30 when all hold, 0 when none holds, and within 0..30; turning
\* one signal on or off changes the score by that signal's weight only.
C15_AdditiveScore ==
    score # None =>
        LET i == probe_info[1]
            f == probe_flags[1]
            v == i.channel_id \in OAC_ALLOWLIST \/ i.verified_badge
            w == InWindow(i.duration)
            t == i.title_good
            c == "music" \in Range(f.cats)
        IN  /\ score[1] = Weight(v, 15) + Weight(w, 8) + Weight(t, 3) + Weight(c, 4)
            /\ score[1] \in 0..30
            /\ (v /\ w /\ t /\ c) => score[1] = 30
            /\ (~v /\ ~w /\ ~t /\ ~c) => score[1] = 0
            /\ MusicScore([f EXCEPT !.verified = TRUE])
                  - MusicScore([f EXCEPT !.verified = FALSE]) = 15
            /\ MusicScore([f EXCEPT !.duration = MAX_TRACK_SECS])
                  - MusicScore([f EXCEPT !.duration = MAX_TRACK_SECS + 1]) = 8
            /\ MusicScore([f EXCEPT !.title_good = TRUE])
                  - MusicScore([f EXCEPT !.title_good = FALSE]) = 3
            /\ MusicScore([f EXCEPT !.is_music_cat = TRUE])
                  - MusicScore([f EXCEPT !.is_music_cat = FALSE]) = 4

\* a video with exactly two of the four signals: in the window and verified
C15_Witness ==
    /\ score # None
    /\ score[1] = 23

(***************************************************************************)
(* Streaming proxy: audio_proxy and the generator it returns.  The handler *)
(* body is one step; after it the WSGI server pulls chunks from the        *)
(* generator one at a time, the client may disconnect at any moment, and   *)
(* the garbage collector may finalise a response nothing refers to.        *)
(***************************************************************************)
\* the ids a client can put in the path audio/<video_id> (never empty)
TrackIds == {Bare("idA"), Junk}

\* request.headers.get('Range')
RangeHeaders == {None, Some("bytes=100-199"), Some("bytes=0-")}

\* info with a "url": its scheme and whether it is a storyboard address
Url(scheme, storyboard) == [got |-> "url", scheme |-> scheme, storyboard |-> storyboard]

\* extract_info raising, returning no info, or info without "url"
NoUrl(how) == [got |-> how, scheme |-> "", storyboard |-> FALSE]

\* what ytdl.extract_info gives resolve_audio_url
Extractions ==
    {NoUrl(how) : how \in {"raises", "no-info", "no-url"}}
        \cup {Url(sc, sb) : sc \in {"https", "rtmp"}, sb \in BOOLEAN}

\* audio_url.startswith("http")
StartsWithHttp(url) == url.scheme \in {"http", "https"}

\* resolve_audio_url without the storyboard test
ResolveAudioUrlAnyKind(x) ==
    IF x.got # "url" THEN None
    ELSE IF ~StartsWithHttp(x) THEN None
    ELSE Some(x)

\* resolve_audio_url, for what extract_info gives
ResolveAudioUrl(x) ==
    IF x.got # "url" THEN None
    ELSE IF x.storyboard THEN None
    ELSE IF ~StartsWithHttp(x) THEN None
    ELSE Some(x)

\* the chunks upstream.iter_content gives; "" is an empty (keep-alive) chunk
Bodies == {<<>>, <<"a">>, <<"a", "", "b">>, <<"a", "b", "c">>}

\* request_manager.get raising without a response (timeout, refused, ...)
NoAnswer ==
    [answered |-> FALSE, status |-> 0, content_range |-> None, body |-> <<>>,
     fails |-> FALSE]

\* what request_manager.get gives: it raises, or it returns a response with a
\* status, maybe a Content-Range header, a body, and whether reading the body
\* can raise (the connection breaks at some chunk)
UpstreamAnswers ==
    {NoAnswer}
        \cup [answered : {TRUE}, status : {200, 204, 206, 404, 503},
              content_range : {None, Some("bytes 100-199/1000")},
              body : Bodies, fails : BOOLEAN]

RaiseForStatusNever(status) == FALSE

\* upstream.raise_for_status(): HTTPError for a 4xx or 5xx status
RaiseForStatus(status) == 400 <= status /\ status < 600

ForwardRangeNever(range_header) == None

\* "if range_header: headers['Range'] = range_header": the Range of the
\* upstream request
ForwardRange(range_header) ==
    IF range_header # None /\ range_header[1] # "" THEN range_header ELSE None

\* "upstream.status_code if upstream.status_code in [200, 206] else 200"
ClientStatus(status) == IF status \in {200, 206} THEN status ELSE 200

InitAudio ==
    /\ ThreadsIdle
    /\ NormUnused
    /\ HandlersIdle
    /\ SearchUnused
    /\ FilterUnused
    /\ AudioUnused
    /\ now = 0
    /\ max_size = 0
    /\ cache = <<>>
    /\ last = NoCall
    /\ written = <<>>
    /\ nops = 0

\* GET audio/<video_id>: audio_proxy up to its return
AudioProxy(video_id, range_header, x, up) ==
    /\ audio.status = 0
    /\ LET req == [NoAudio EXCEPT !.track = video_id, !.range = range_header]
           clean_id == ExtractVideoId(video_id)
           audio_url == ResolveAudioUrl(x)
           tried == [req EXCEPT !.resolved = TRUE, !.extracted = Some(x)]
           asked == [tried EXCEPT !.fetched = TRUE,
                                  !.fwd_range = ForwardRange(range_header)]
       IN  IF Falsy(clean_id)
           THEN /\ audio' = [req EXCEPT !.status = 400]
                /\ UNCHANGED <<upstream, gen>>
           ELSE IF audio_url = None
           THEN /\ audio' = [tried EXCEPT !.status = 500]
                /\ UNCHANGED <<upstream, gen>>
           ELSE IF ~up.answered
           THEN /\ audio' = [asked EXCEPT !.status = 502]
                /\ UNCHANGED <<upstream, gen>>
           ELSE IF RaiseForStatus(up.status)
           THEN /\ audio' = [asked EXCEPT !.status = 502]
                /\ upstream' = [NoUpstream EXCEPT !.state = "open", !.status = up.status,
                                    !.content_range = up.content_range,
                                    !.rest = up.body, !.fails = up.fails,
                                    !.body = up.body]
                /\ UNCHANGED gen
           ELSE /\ audio' = [asked EXCEPT !.status = ClientStatus(up.status),
                                          !.content_range = up.content_range]
                /\ upstream' = [NoUpstream EXCEPT !.state = "open", !.status = up.status,
                                    !.content_range = up.content_range,
                                    !.rest = up.body, !.fails = up.fails,
                                    !.body = up.body]
                /\ gen' = "created"
    /\ UNCHANGED <<sent, cvars, tvars, svars, fvars, nvars, hvars>>

\* the chunks of rest from its first non-empty one on ("if chunk:")
RECURSIVE SkipEmpty(_)
SkipEmpty(rest) ==
    IF rest = <<>> THEN <<>>
    ELSE IF Head(rest) = "" THEN SkipEmpty(Tail(rest))
    ELSE rest

AfterYieldSkipsOne(rest) == IF Len(rest) > 1 THEN Tail(Tail(rest)) ELSE <<>>

\* what iter_content still has to give once the chunk at the head was yielded
AfterYield(rest) == Tail(rest)

\* upstream.close(), reached from the finally of generate()
Close(u) == [u EXCEPT !.state = "closed", !.closed_by = "generate"]

\* the server takes the next item of the response: generate() runs to its next
\* yield, or to its end (the body is over, or reading it raised) through its
\* finally
Pull ==
    /\ gen \in {"created", "suspended"}
    /\ LET rest == SkipEmpty(upstream.rest)
       IN  IF rest # <<>>
           THEN /\ sent' = Append(sent, Head(rest))
                /\ upstream' = [upstream EXCEPT !.rest = AfterYield(rest)]
                /\ gen' = "suspended"
           ELSE /\ upstream' = Close([upstream EXCEPT !.rest = <<>>])
                /\ gen' = "closed"
                /\ UNCHANGED sent
    /\ UNCHANGED <<audio, cvars, tvars, svars, fvars, nvars, hvars>>

\* the server takes the next item and iter_content raises: the except of
\* generate() logs, its finally closes upstream, and the generator ends
ReadFails ==
    /\ gen \in {"created", "suspended"}
    /\ upstream.fails
    /\ upstream' = Close([upstream EXCEPT !.broke = TRUE])
    /\ gen' = "closed"
    /\ UNCHANGED <<audio, sent, cvars, tvars, svars, fvars, nvars, hvars>>

\* the client goes away and the server closes the response iterable.  A
\* generator suspended at its yield gets GeneratorExit there and runs its
\* finally; a generator that was never started is closed without running any
\* of its body.
Disconnect ==
    /\ gen \in {"created", "suspended"}
    /\ gen' = "closed"
    /\ upstream' = IF gen = "suspended" THEN Close(upstream) ELSE upstream
    /\ UNCHANGED <<audio, sent, cvars, tvars, svars, fvars, nvars, hvars>>

\* the garbage collector finalises an upstream response that nothing refers to
\* any more (the handler returned 502, or the generator is gone), which closes
\* its connection; when, and whether, this happens is up to the interpreter
Collect ==
    /\ upstream.state = "open"
    /\ gen \in {"none", "closed"}
    /\ upstream' = [upstream EXCEPT !.state = "closed", !.closed_by = "gc"]
    /\ UNCHANGED <<audio, gen, sent, cvars, tvars, svars, fvars, nvars, hvars>>

NextAudio ==
    \/ \E video_id \in TrackIds, range_header \in RangeHeaders,
          x \in Extractions, up \in UpstreamAnswers :
            AudioProxy(video_id, range_header, x, up)
    \/ Pull
    \/ ReadFails
    \/ Disconnect
    \/ Collect

SpecAudio == InitAudio /\ [][NextAudio]_vars

\* the server goes on pulling as long as the response is not exhausted or closed
SpecAudioFair == SpecAudio /\ WF_vars(Pull)

(***************************************************************************)
(* Properties of the streaming proxy                                       *)
(***************************************************************************)
\* the audio request has been answered
AudioAnswered == audio.status # 0

\* request_manager.get returned a response
GotUpstream == upstream.state # "none"

\* a trackId that is neither an 11-character id nor matched by any pattern
Unrecognizable(raw) == raw.form = "junk"

\* C16: an audio request whose trackId cannot be normalized to a recognizable
\* track identifier ends with status 400, and neither the URL resolution nor
\* an upstream fetch is attempted for it.
C16_InvalidIdRejected ==
    (AudioAnswered /\ Unrecognizable(audio.track)) =>
        /\ audio.status = 400
        /\ ~audio.resolved
        /\ ~audio.fetched

\* C17 (as stated): every upstream response whose status is neither 200 nor
\* 206 gives the client a 502 and no body bytes, and the client gets a 200 or
\* 206 streamed response only when the upstream status was 200 or 206
\* respectively.
C17_Only200And206Relayed ==
    GotUpstream =>
        /\ upstream.status \notin {200, 206} => audio.status = 502 /\ sent = <<>>
        /\ audio.status \in {200, 206} => upstream.status = audio.status

\* C17 (amended): an upstream response with a 4xx or 5xx status, and a fetch
\* that gets no response, give the client a 502 and no body bytes; every other
\* upstream response is relayed, with status 206 when the upstream status was
\* 206 and with status 200 otherwise.
C17_ErrorStatusRejected ==
    /\ (audio.fetched /\ ~GotUpstream) => audio.status = 502 /\ sent = <<>>
    /\ GotUpstream =>
          IF upstream.status \in 400..599
          THEN audio.status = 502 /\ sent = <<>> /\ gen = "none"
          ELSE audio.status = (IF upstream.status = 206 THEN 206 ELSE 200)

\* an upstream 404 answered with a 502
C17_Witness ==
    /\ GotUpstream
    /\ upstream.status = 404
    /\ audio.status = 502

\* an upstream 204 relayed with status 200
C17_WitnessOtherStatus ==
    /\ upstream.status = 204
    /\ audio.status = 200
    /\ sent # <<>>

\* C18: the upstream request carries the client's Range value unchanged, and
\* no Range when the client sent none; when the upstream answers 206 with a
\* Content-Range header the client response has status 206 and the same
\* Content-Range value.
C18_RangePassedThrough ==
    audio.fetched =>
        /\ audio.fwd_range = audio.range
        /\ (GotUpstream /\ upstream.status = 206 /\ upstream.content_range # None) =>
              /\ audio.status = 206
              /\ audio.content_range = upstream.content_range

\* a ranged request answered 206 with a Content-Range
C18_Witness ==
    /\ audio.range = Some("bytes=100-199")
    /\ audio.fwd_range # None
    /\ upstream.status = 206
    /\ audio.content_range # None

\* C19: every upstream connection opened by an audio request is eventually
\* closed, on every path (end of the stream, mid-stream error, client
\* disconnect, also before the first chunk is pulled, rejected status).
C19_UpstreamEventuallyClosed ==
    (upstream.state = "open") ~> (upstream.state = "closed")

\* what extract_info gave is no URL, a storyboard URL or not an http(s) address
Unplayable(x) ==
    \/ x.got # "url"
    \/ x.storyboard
    \/ x.scheme \notin {"http", "https"}

NonEmpty(chunks) == SelectSeq(chunks, LAMBDA c : c # "")

IsPrefix(a, b) == Len(a) <= Len(b) /\ SubSeq(b, 1, Len(a)) = a

Fresh == Answered /\ ~resp.cached

\* the request went as far as the primary source
Discovered == resp.ytm # "none"

\* the ids of the candidates of a list, in its order
CleanIds(cands) == [k \in 1..Len(cands) |-> ExtractVideoId(cands[k]).id]

\* where an id stands in a list of ids (0: nowhere)
PosIn(id, ids) ==
    IF \E k \in 1..Len(ids) : ids[k] = id
    THEN CHOOSE k \in 1..Len(ids) : ids[k] = id /\ \A o \in 1..(k - 1) : ids[o] # id
    ELSE 0

NoDuplicates(ids) == \A i, j \in 1..Len(ids) : ids[i] = ids[j] => i = j

\* what the secondary source was asked for and gave, as ids
AioGave == CleanIds(Take(catalog.aio.items, Min(resp.n * 2, AioCap)))

\* C26: tracks of a response with equal musicScore keep the order in which
\* discovery found them, candidates of the primary source before those of the
\* secondary one: the sort is stable.
C26_TiesKeepDiscoveryOrder ==
    Fresh =>
        \A i, j \in 1..Len(resp.results) :
            (i < j /\ resp.results[i].musicScore = resp.results[j].musicScore) =>
                /\ PosIn(resp.results[i].id, CleanIds(resp.pool))
                      < PosIn(resp.results[j].id, CleanIds(resp.pool))
                /\ resp.results[j].id \in Range(CleanIds(resp.from_ytm))
                      => resp.results[i].id \in Range(CleanIds(resp.from_ytm))

\* two tracks of equal score, the first from the primary source and the second
\* from the secondary one
C26_Witness ==
    /\ Fresh
    /\ Len(resp.results) = 2
    /\ resp.results[1].musicScore = resp.results[2].musicScore
    /\ resp.results[1].id \in Range(CleanIds(resp.from_ytm))
    /\ resp.results[2].id \in Range(CleanIds(resp.from_aio))

\* C27: the secondary source is queried if and only if the primary source
\* yielded fewer candidates than the limit, and the pool that is processed
\* never holds more than twice the limit.
C27_SupplementIffShort ==
    Discovered =>
        /\ resp.aio # "none" <=> Len(resp.from_ytm) < resp.n
        /\ Len(resp.pool) <= 2 * resp.n

\* the primary source was one short, the secondary one was queried and gave
\* more than the pool takes
C27_Witness ==
    /\ Fresh
    /\ Len(resp.from_ytm) = resp.n - 1
    /\ resp.aio = "ok"
    /\ Len(resp.from_ytm) + Len(resp.from_aio) > 2 * resp.n
    /\ Len(resp.pool) = 2 * resp.n

\* the primary source gave as many candidates as the limit and the secondary
\* one was left alone
C27_WitnessNotQueried ==
    /\ Fresh
    /\ resp.n >= 1
    /\ Len(resp.from_ytm) = resp.n
    /\ resp.aio = "none"

\* C28: candidates are deduplicated and the first source wins: neither the
\* pool nor the results hold an id twice, and an id supplied by both sources
\* stays where the primary source put it.
C28_FirstSourceWins ==
    Fresh =>
        /\ NoDuplicates(CleanIds(resp.pool))
        /\ NoDuplicates([k \in 1..Len(resp.results) |-> resp.results[k].id])
        /\ \A k \in 1..Len(resp.from_ytm) :
              /\ k <= Len(resp.pool) => resp.pool[k] = resp.from_ytm[k]
              /\ CleanIds(resp.from_ytm)[k] \notin Range(CleanIds(resp.from_aio))

\* the secondary source gave, among new ids, an id the primary one had given
C28_Witness ==
    /\ Fresh
    /\ resp.aio = "ok"
    /\ Len(resp.from_aio) >= 2
    /\ \E k \in 1..Len(resp.from_ytm) :
          /\ CleanIds(resp.from_ytm)[k] \in Range(AioGave)
          /\ CleanIds(resp.pool)[k] = CleanIds(resp.from_ytm)[k]

(***************************************************************************)
(* The response cache and the parameters of a request                      *)
(***************************************************************************)
\* C31: a search response served from the response cache was computed for the
\* parameters of the request it is served to: its query field is the request's
\* q, and the request that stored it had the same limit and the same
\* verifiedOnly flag; no two requests that differ in q, maxResults or
\* verifiedOnly share a cache key (so a request that stored a response and a
\* later one with its key are the same request).
C31_CachedForSameRequest ==
    [][(nops' = nops + 1 /\ resp'.status = 200 /\ resp'.cached) =>
          /\ resp'.query = resp'.q
          /\ (/\ resp.status = 200 /\ ~resp.cached
              /\ RequestKey(resp.q, resp.n, resp.vo)
                    = RequestKey(resp'.q, resp'.n, resp'.vo)) =>
                (resp.q = resp'.q /\ resp.n = resp'.n /\ resp.vo = resp'.vo)
    ]_vars

(***************************************************************************)
(* The verified-only switch around one search request                      *)
(***************************************************************************)
\* C23: every search request run on its own -- cache hit, success, 400, 500
\* with both sources failed -- leaves ENFORCE_VERIFIED_ONLY at the value it had
\* when the request started.
C23_SwitchRestored ==
    [][nops' = nops + 1 => ENFORCE_VERIFIED_ONLY' = ENFORCE_VERIFIED_ONLY]_vars

(***************************************************************************)
(* Search requests served by concurrent threads.  A request is two steps:  *)
(* up to the write of the switch, and from the cache lookup to the return. *)
(* handlers[t].original is the handler's local original_verified_only.     *)
(***************************************************************************)
ConcQueries == {<<>>, <<"believer">>}

ConcLimits == {n \in MaxResultsArgs : n >= 1}

InitSearchConc == InitSearch

\* search, from the request arguments to "if verified_only:
\* ENFORCE_VERIFIED_ONLY = True"; a request without q is answered 400 at once
Arrive(t, q, n, vo) ==
    /\ handlers[t].at = "idle"
    /\ nops < MaxOps
    /\ nops' = nops + 1
    /\ IF q = <<>>
       THEN /\ resp' = [NoRequest EXCEPT !.q = q, !.n = n, !.vo = vo, !.status = 400,
                                         !.enforced = ENFORCE_VERIFIED_ONLY]
            /\ UNCHANGED <<handlers, ENFORCE_VERIFIED_ONLY>>
       ELSE /\ handlers' = [handlers EXCEPT ![t] =
                              [at |-> "running", q |-> q, n |-> n, vo |-> vo,
                               original |-> ENFORCE_VERIFIED_ONLY]]
            /\ ENFORCE_VERIFIED_ONLY' = (ENFORCE_VERIFIED_ONLY \/ vo)
            /\ UNCHANGED resp
    /\ UNCHANGED <<now, max_size, cache, last, written, tvars, search_cache,
                   video_cache, catalog, fvars, avars, nvars>>

\* search, from the try block to the return: only the fresh-success path
\* writes original_verified_only back
Return(t) ==
    /\ handlers[t].at = "running"
    /\ LET h == handlers[t]
           r == SearchHandler(h.q, h.n, h.vo, h.original, search_cache, video_cache,
                              catalog, now)
           restores == r.resp.status = 200 /\ ~r.resp.cached
       IN  /\ ENFORCE_VERIFIED_ONLY' =
                  IF restores THEN h.original ELSE ENFORCE_VERIFIED_ONLY
           /\ search_cache' = r.search_cache
           /\ video_cache' = r.video_cache
           /\ resp' = [r.resp EXCEPT !.enforced = ENFORCE_VERIFIED_ONLY]
    /\ handlers' = [handlers EXCEPT ![t] = NoHandler]
    /\ UNCHANGED <<now, max_size, cache, last, written, nops, tvars, catalog,
                   fvars, avars, nvars>>

NextSearchConc ==
    \/ \E t \in Threads, q \in ConcQueries, n \in ConcLimits, vo \in BOOLEAN :
          Arrive(t, q, n, vo)
    \/ \E t \in Threads : Return(t)

SpecSearchConc == InitSearchConc /\ [][NextSearchConc]_vars

\* C24: under any interleaving of concurrent search requests there is no
\* cross-request race on the switch: a request with verifiedOnly=false never
\* runs with the mode active because of another request, and once all requests
\* have finished the switch has its initial value again (here: off).
C24_NoCrossRequestRace ==
    /\ \A t \in Threads :
          (handlers[t].at = "running" /\ ~handlers[t].vo) => ~ENFORCE_VERIFIED_ONLY
    /\ (\A t \in Threads : handlers[t].at = "idle") => ~ENFORCE_VERIFIED_ONLY

(***************************************************************************)
(* Candidate normalizer on text.  A string is the sequence of its          *)
(* characters; extract_video_id is computed on it as the code does, by the *)
(* anchored test for a bare id, the three search patterns in order, and    *)
(* the final slice.  (ExtractVideoId above is the same function on the     *)
(* shapes of identifier the handlers meet.)                                *)
(***************************************************************************)
IdLen == 11     \* "{11}" in the patterns, "[:11]" in the last line

\* the character class [a-zA-Z0-9_-]
IdChars ==
    {"a", "b", "c", "d", "e", "f", "g", "h", "i", "j", "k", "l", "m", "n",
     "o", "p", "q", "r", "s", "t", "u", "v", "w", "x", "y", "z", "A", "B",
     "C", "D", "E", "F", "G", "H", "I", "J", "K", "L", "M", "N", "O", "P",
     "Q", "R", "S", "T", "U", "V", "W", "X", "Y", "Z", "0", "1", "2", "3",
     "4", "5", "6", "7", "8", "9", "_", "-"}

\* the literals of the patterns
WatchLit ==
    <<"y", "o", "u", "t", "u", "b", "e", ".", "c", "o", "m", "/", "w", "a",
      "t", "c", "h", "?", "v", "=">>

ShortLit ==
    <<"y", "o", "u", "t", "u", ".", "b", "e", "/">>

EmbedLit ==
    <<"y", "o", "u", "t", "u", "b", "e", ".", "c", "o", "m", "/", "e", "m",
      "b", "e", "d", "/">>

VParamLit ==
    <<"v", "=">>

SlashLit ==
    <<"/">>

\* the literal lit is in text s at position p
HasAt(s, p, lit) ==
    /\ p >= 1
    /\ p + Len(lit) - 1 <= Len(s)
    /\ \A j \in 1..Len(lit) : s[p + j - 1] = lit[j]

\* "[a-zA-Z0-9_-]{11}" matches in s at position p
IdRunAt(s, p) ==
    /\ p >= 1
    /\ p + IdLen - 1 <= Len(s)
    /\ \A j \in 0..(IdLen - 1) : s[p + j] \in IdChars

\* "$" matches after position p: at the end, or just before a final newline
AtEnd(s, p) == p = Len(s) \/ (p = Len(s) - 1 /\ s[Len(s)] = "\n")

\* re.match(r'^[a-zA-Z0-9_-]{11}$', s)
IsBareId(s) == IdRunAt(s, 1) /\ AtEnd(s, IdLen)

GroupOneMore(s, p) == SubSeq(s, p, Min(Len(s), p + IdLen))

\* match.group(1) of a match whose group starts at position p
Group(s, p) == SubSeq(s, p, p + IdLen - 1)

\* the matches of a pattern in s: the pattern is one of the literals lits
\* followed by the group, and by the end of the text when anchored; a match
\* is given by where it starts (at) and where its group starts (grp)
Matches(s, lits, anchored) ==
    {m \in [at : 1..Len(s), grp : 1..Len(s)] :
        /\ \E k \in 1..Len(lits) :
              HasAt(s, m.at, lits[k]) /\ m.grp = m.at + Len(lits[k])
        /\ IdRunAt(s, m.grp)
        /\ anchored => AtEnd(s, m.grp + IdLen - 1)}

\* the patterns, in the order they are tried
Patterns ==
    << [lits |-> <<WatchLit, ShortLit, EmbedLit>>, anchored |-> FALSE],
       [lits |-> <<VParamLit>>, anchored |-> FALSE],
       [lits |-> <<SlashLit>>, anchored |-> TRUE] >>

\* re.search(pattern, s): where the group of the leftmost match starts (no
\* two alternatives of a pattern match at one place), 0 without a match
Search1(s, pat) ==
    LET ms == Matches(s, pat.lits, pat.anchored)
    IN  IF ms = {} THEN 0
        ELSE (CHOOSE m \in ms : \A o \in ms : m.at <= o.at).grp

\* "for pattern in patterns: ... if match: return match.group(1)": the first
\* pattern that matches, 0 when none does
FirstPattern(s) ==
    IF \E k \in 1..Len(Patterns) : Search1(s, Patterns[k]) # 0
    THEN CHOOSE k \in 1..Len(Patterns) :
            /\ Search1(s, Patterns[k]) # 0
            /\ \A o \in 1..(k - 1) : Search1(s, Patterns[o]) = 0
    ELSE 0

\* extract_video_id(video_input) for None or a string
ExtractVideoIdText(video_input) ==
    IF video_input = None \/ video_input = Some(<<>>) THEN None
    ELSE LET s == video_input[1]
             k == FirstPattern(s)
         IN  IF IsBareId(s) THEN Some(s)
             ELSE IF k # 0 THEN Some(Group(s, Search1(s, Patterns[k])))
             ELSE IF Len(s) >= IdLen THEN Some(SubSeq(s, 1, IdLen))
             ELSE Some(s)

\* the inputs tried: a front part, an id or near-id, and a tail
HttpsWww ==
    <<"h", "t", "t", "p", "s", ":", "/", "/", "w", "w", "w", ".">>

OtherSite ==
    <<"h", "t", "t", "p", "s", ":", "/", "/", "e", "x", "a", "m", "p", "l",
      "e", ".", "c", "o", "m", "/", "x", "/">>

FeatureParam ==
    <<"w", "a", "t", "c", "h", "?", "f", "e", "a", "t", "u", "r", "e", "=",
      "s", "h", "a", "r", "e", "&">>

Fronts ==
    { <<>>, HttpsWww \o WatchLit, WatchLit, HttpsWww \o ShortLit,
      HttpsWww \o EmbedLit, VParamLit, OtherSite, FeatureParam \o VParamLit }

SampleId ==
    <<"d", "Q", "w", "4", "w", "9", "W", "g", "X", "c", "Q">>

OtherId ==
    <<"a", "b", "c", "_", "-", "1", "2", "3", "x", "y", "z">>

Cores == {SampleId, OtherId, SubSeq(SampleId, 1, IdLen - 1), SampleId \o <<"Z">>}

TimeParam ==
    <<"&", "t", "=", "1", "s">>

Tails == {<<>>, TimeParam, <<"\n">>}

ShortJunk ==
    <<"a", "b", "c">>

SpacedJunk ==
    <<"h", "e", "l", "l", "o", " ", "w", "o", "r", "l", "d", "!", "!">>

LongWord ==
    <<"n", "o", "t", "-", "a", "-", "v", "a", "l", "i", "d", "-", "i", "d">>

Texts ==
    {f \o c \o t : f \in Fronts, c \in Cores, t \in Tails}
        \cup {ShortJunk, SpacedJunk, LongWord}

NormInputs == {None, Some(<<>>)} \cup {Some(x) : x \in Texts}

InitNormalize ==
    /\ ThreadsIdle
    /\ HandlersIdle
    /\ SearchUnused
    /\ FilterUnused
    /\ AudioUnused
    /\ now = 0
    /\ max_size = 0
    /\ cache = <<>>
    /\ last = NoCall
    /\ written = <<>>
    /\ nops = 0
    /\ norm \in [input : NormInputs, outs : {<<>>}]

\* extract_video_id applied to the input, then to its own result
Normalize ==
    /\ Len(norm.outs) < 2
    /\ norm' = [norm EXCEPT !.outs =
                  Append(@, ExtractVideoIdText(IF @ = <<>> THEN norm.input ELSE @[Len(@)]))]
    /\ UNCHANGED <<cvars, tvars, svars, fvars, avars, hvars>>

NextNormalize == Normalize

SpecNormalize == InitNormalize /\ [][NextNormalize]_vars

(***************************************************************************)
(* Properties of the candidate normalizer                                  *)
(***************************************************************************)
\* the input is a bare 11-character id or has one of the URL shapes
Recognised(x) == x # None /\ (IsBareId(x[1]) \/ FirstPattern(x[1]) # 0)

\* exactly 11 characters of the id class
WellFormedId(s) == Len(s) = IdLen /\ \A i \in 1..Len(s) : s[i] \in IdChars

\* C21: extract_video_id is idempotent on every bare id and every recognised
\* URL shape: applying it to its own result gives that result again.
C21_Idempotent ==
    (Len(norm.outs) = 2 /\ Recognised(norm.input)) => norm.outs[2] = norm.outs[1]

\* a watch URL with a trailing parameter, normalised twice
C21_Witness ==
    /\ Len(norm.outs) = 2
    /\ norm.input = Some(HttpsWww \o WatchLit \o SampleId \o TimeParam)
    /\ norm.outs[1] = Some(SampleId)

\* C22: extract_video_id returns absent for every input that is neither a bare
\* id nor matched by a pattern, and never returns a value that is not a
\* well-formed 11-character id.
C22_AbsentUnlessRecognised ==
    Len(norm.outs) >= 1 =>
        /\ ~Recognised(norm.input) => norm.outs[1] = None
        /\ norm.outs[1] # None => WellFormedId(norm.outs[1][1])

====
